---- MODULE Spec2Model ----
(***************************************************************************)
(* Model of src/agent_reviewer.py: the AutoDevOps pull-request review      *)
(* crew.  main() loads the credentials, builds five tools, five agents and *)
(* six tasks and runs them as one sequential crew.  Text is modelled as    *)
(* tuples of one-character strings so that strip/split/endswith are        *)
(* computed, not assumed.                                                  *)
(***************************************************************************)
EXTENDS Integers, Sequences, FiniteSets, TLC

VARIABLES
    environ,    \* os.environ restricted to the four variables main() reads
    pc,         \* position of main(): "main", "next_task", "in_task", "exited"
    exitCode,   \* process exit status; -1 while the process is running
    exitCause,  \* how main() ended: "none", "config", "exception", "returned"
    cur,        \* index into tasks of the task the crew is at
    started,    \* tasks whose execution has begun
    artifacts,  \* task outputs produced so far: task -> [inputs, text]
    calls,      \* tool calls made by the agent in the current task
    lastCall,   \* the most recent tool call of the current task and its result
    fs,         \* names of the temporary files that exist
    events,     \* kinds of externally visible things that have happened
    published,  \* comments created on the pull request
    output,     \* texts written by print(result) and by the comment tool's log calls
    inflight,   \* tool invocations in progress when two of them overlap
    github_pat  \* main()'s local github_pat: what setup_environment returned

vars == <<environ, pc, exitCode, exitCause, cur, started, artifacts, calls,
          lastCall, fs, events, published, output, inflight, github_pat>>

----------------------------------------------------------------------------
(* Bounds *)

MaxToolCalls == 2   \* tool calls an agent makes within one task
MaxNames == 2       \* temporary file names the directory can hand out
MaxFiles == 2       \* changed files listed by a pull request
MaxSegs == 5        \* "/"-separated segments of a generated reference

----------------------------------------------------------------------------
(* Text helpers *)

NONE == "<none>"
\* os.getenv of a variable that is not set (None); no text equals it
UNSET == <<"<unset>">>

Last(s) == s[Len(s)]

\* str.strip("/"): drop every leading and trailing "/"
RECURSIVE LStrip(_)
LStrip(s) == IF s # <<>> /\ Head(s) = "/" THEN LStrip(Tail(s)) ELSE s

RECURSIVE RStrip(_)
RStrip(s) ==
    IF s # <<>> /\ Last(s) = "/" THEN RStrip(SubSeq(s, 1, Len(s) - 1)) ELSE s

Strip(s) == RStrip(LStrip(s))

\* str.split("/"): every "/" separates, empty parts are kept, "" gives [""]
RECURSIVE SplitFrom(_, _, _)
SplitFrom(s, i, part) ==
    IF i > Len(s) THEN <<part>>
    ELSE IF s[i] = "/" THEN <<part>> \o SplitFrom(s, i + 1, <<>>)
    ELSE SplitFrom(s, i + 1, Append(part, s[i]))

Split(s) == SplitFrom(s, 1, <<>>)

\* str.endswith(suffix)
\* a suffix test that ignores the first character of the suffix
EndsWith_tail(s, suffix) ==
    /\ Len(s) >= Len(suffix) - 1
    /\ SubSeq(s, Len(s) - Len(suffix) + 2, Len(s)) = Tail(suffix)

\* str.endswith
EndsWith(s, suffix) ==
    /\ Len(s) >= Len(suffix)
    /\ SubSeq(s, Len(s) - Len(suffix) + 1, Len(s)) = suffix

Digits == {"0", "1", "7"}
Signs == {"+", "-"}

\* int(text) succeeds: an optional sign followed by at least one digit
\* (the alphabet used here has no whitespace and no underscore)
IsIntLiteral(part) ==
    LET body == IF part # <<>> /\ Head(part) \in Signs THEN Tail(part) ELSE part
    IN  /\ body # <<>>
        /\ \A i \in 1..Len(body) : body[i] \in Digits

PULL == <<"p", "u", "l", "l">>
DOT_PY == <<".", "p", "y">>

\* "https://github.com/D3vn4/AutoDevOps/pull/1", host, owner and repository
\* each abbreviated to one letter
PR_TO_REVIEW ==
    <<"h", ":", "/", "/", "g", "/", "o", "/", "r", "/", "p", "u", "l", "l", "/", "1">>

----------------------------------------------------------------------------
(* Configuration: setup_environment *)

EnvNames == {"GOOGLE_API_KEY", "PAT_COMMENT", "GITHUB_PAT", "PR_URL"}

\* Python truthiness of os.getenv's result: None and "" are falsy
Truthy(v) == v \notin {UNSET, <<>>}

\* setup_environment with GITHUB_PAT tried before PAT_COMMENT
setup_environment_reversed(env) ==
    LET google_api_key == env["GOOGLE_API_KEY"]
        github_pat_ == IF Truthy(env["GITHUB_PAT"]) THEN env["GITHUB_PAT"]
                       ELSE env["PAT_COMMENT"]
    IN  IF ~Truthy(google_api_key)
        THEN [raised |-> TRUE, environ |-> env, ret |-> NONE]
        ELSE IF ~Truthy(github_pat_)
        THEN [raised |-> TRUE, environ |-> env, ret |-> NONE]
        ELSE [raised |-> FALSE,
              environ |-> [env EXCEPT !["GOOGLE_API_KEY"] = google_api_key,
                                      !["GITHUB_PAT"] = github_pat_],
              ret |-> github_pat_]

\* env is the environment after load_dotenv().  The result says whether
\* ValueError was raised, the environment afterwards and the returned value.
setup_environment(env) ==
    LET google_api_key == env["GOOGLE_API_KEY"]
        github_pat_ == IF Truthy(env["PAT_COMMENT"]) THEN env["PAT_COMMENT"]
                      ELSE env["GITHUB_PAT"]
    IN  IF ~Truthy(google_api_key)
        THEN [raised |-> TRUE, environ |-> env, ret |-> NONE]
        ELSE IF ~Truthy(github_pat_)
        THEN [raised |-> TRUE, environ |-> env, ret |-> NONE]
        ELSE [raised |-> FALSE,
              environ |-> [env EXCEPT !["GOOGLE_API_KEY"] = google_api_key,
                                      !["GITHUB_PAT"] = github_pat_],
              ret |-> github_pat_]

\* pr_url = os.getenv("PR_URL", PR_TO_REVIEW)
PrUrlOf(env) == IF env["PR_URL"] = UNSET THEN PR_TO_REVIEW ELSE env["PR_URL"]

----------------------------------------------------------------------------
(* Repository tools: GitHubPRTool and GitHubPRCommentTool *)

NoFiles == [f \in {} |-> NONE]

\* What a tool hands back to the agent: one string, modelled by its parts.
\* kind names the template of the string, the other fields what it embeds.
Ret(kind, stdout, stderr, exc, files) ==
    [kind |-> kind, stdout |-> stdout, stderr |-> stderr, exc |-> exc,
     files |-> files]

\* get_contents without ref: the content on the repository's default branch
ContentAt_default(filename, ref) == <<filename, "default_branch">>

\* repo.get_contents(filename, ref).decoded_content.decode('utf-8')
ContentAt(filename, ref) == <<filename, ref>>

\* the loop over the files going on to the next file when one cannot be read
RECURSIVE ReadFiles_skip(_, _, _, _)
ReadFiles_skip(files, i, file_contents, api) ==
    IF i > Len(files)
    THEN [raised |-> FALSE, file_contents |-> file_contents, api |-> api]
    ELSE IF EndsWith(files[i].filename, DOT_PY)
    THEN IF files[i].readable
         THEN ReadFiles_skip(files, i + 1,
                             [f \in DOMAIN file_contents \cup {files[i].filename} |->
                                 IF f = files[i].filename
                                 THEN ContentAt(files[i].filename, "head_sha")
                                 ELSE file_contents[f]],
                             Append(api, "get_contents"))
         ELSE ReadFiles_skip(files, i + 1, file_contents,
                             Append(api, "get_contents"))
    ELSE ReadFiles_skip(files, i + 1, file_contents, api)

\* The loop over pr.get_files(): files is the listing, each entry a changed
\* file's name and whether its content can be fetched and decoded.
RECURSIVE ReadFiles(_, _, _, _)
ReadFiles(files, i, file_contents, api) ==
    IF i > Len(files)
    THEN [raised |-> FALSE, file_contents |-> file_contents, api |-> api]
    ELSE IF EndsWith(files[i].filename, DOT_PY)
    THEN IF files[i].readable
         THEN ReadFiles(files, i + 1,
                        [f \in DOMAIN file_contents \cup {files[i].filename} |->
                            IF f = files[i].filename
                            THEN ContentAt(files[i].filename, "head_sha")
                            ELSE file_contents[f]],
                        Append(api, "get_contents"))
         ELSE [raised |-> TRUE, file_contents |-> file_contents,
               api |-> Append(api, "get_contents")]
    ELSE ReadFiles(files, i + 1, file_contents, api)

\* GitHubPRTool._run(pr_url); gh gives the outcome of each repository call
GitHubPRTool_run(url, gh) ==
    LET parts == Split(Strip(url))
        n == Len(parts)
    IN  IF n < 4 \/ parts[n - 1] # PULL
        THEN [ret |-> Ret("invalid_url", NONE, NONE, NONE, NoFiles), api |-> <<>>]
        ELSE IF ~IsIntLiteral(parts[n])
        THEN [ret |-> Ret("error", NONE, NONE, "ValueError", NoFiles), api |-> <<>>]
        ELSE IF gh.repo # "ok"
        THEN [ret |-> Ret("error", NONE, NONE, gh.repo, NoFiles),
              api |-> <<"get_repo">>]
        ELSE IF gh.pull # "ok"
        THEN [ret |-> Ret("error", NONE, NONE, gh.pull, NoFiles),
              api |-> <<"get_repo", "get_pull">>]
        ELSE LET read == ReadFiles(gh.files, 1, NoFiles,
                                   <<"get_repo", "get_pull", "get_files">>)
             IN  IF read.raised
                 THEN [ret |-> Ret("error", NONE, NONE, "GithubException", NoFiles),
                       api |-> read.api]
                 ELSE IF DOMAIN read.file_contents = {}
                 THEN [ret |-> Ret("no_py_files", NONE, NONE, NONE, NoFiles),
                       api |-> read.api]
                 ELSE [ret |-> Ret("json", NONE, NONE, NONE, read.file_contents),
                       api |-> read.api]

\* GitHubPRCommentTool._run(pr_url, comment); posted says whether
\* create_issue_comment went through
GitHubPRCommentTool_run(url, comment, gh) ==
    LET parts == Split(Strip(url))
        n == Len(parts)
    IN  IF n < 4 \/ parts[n - 1] # PULL
        THEN [ret |-> Ret("invalid_url", NONE, NONE, NONE, NoFiles),
              api |-> <<>>, posted |-> FALSE]
        ELSE IF ~IsIntLiteral(parts[n])
        THEN [ret |-> Ret("error", NONE, NONE, "ValueError", NoFiles),
              api |-> <<>>, posted |-> FALSE]
        ELSE IF gh.repo # "ok"
        THEN [ret |-> Ret("error", NONE, NONE, gh.repo, NoFiles),
              api |-> <<"get_repo">>, posted |-> FALSE]
        ELSE IF gh.pull # "ok"
        THEN [ret |-> Ret("error", NONE, NONE, gh.pull, NoFiles),
              api |-> <<"get_repo", "get_pull">>, posted |-> FALSE]
        ELSE IF gh.create # "ok"
        THEN [ret |-> Ret("error", NONE, NONE, gh.create, NoFiles),
              api |-> <<"get_repo", "get_pull", "create_issue_comment">>,
              posted |-> FALSE]
        ELSE [ret |-> Ret("posted", NONE, NONE, NONE, NoFiles),
              api |-> <<"get_repo", "get_pull", "create_issue_comment">>,
              posted |-> TRUE]

\* texts the comment tool writes to the log: logging.info embeds the
\* repository name and the number, logging.error the exception; neither embeds
\* the comment
CommentToolLog(r) == IF r.ret.kind = "error" THEN {r.ret.exc} ELSE {}

----------------------------------------------------------------------------
(* Analysis tools: RuffTool, BanditTool, PytestExecutionTool *)

\* Each _run gets the files that exist (files), the name the temporary file
\* would receive (name) and what the outside world does during the call (ev):
\*   ev.create   NamedTemporaryFile succeeds
\*   ev.write    write() and the close at the end of the with block succeed
\*               (they fail on text that cannot be encoded, or a full disk)
\*   ev.proc     what subprocess.run does: "completed", "TimeoutExpired" (the
\*               child is killed at the timeout) or "OSError" (no launch)
\*   ev.returncode, ev.stdout, ev.stderr   of a completed process
\*   ev.gone     the file has vanished when os.unlink is reached
\* The result gives the returned string, the files left behind, the file the
\* call created (NoFile if none) and the exit path taken.

NoFile == [dir |-> NONE, n |-> 0]

RUFF_TIMEOUT == 30
BANDIT_TIMEOUT == 30
PYTEST_TIMEOUT == 60

\* a temporary file opened under a name that may already be in use
NamedTemporaryFile_reused(files, names) == names

\* tempfile.NamedTemporaryFile(delete=False, ...): the names the call can
\* create, which are those of no existing file (the file is opened with O_EXCL
\* and another random name is tried when the name exists)
NamedTemporaryFile(files, names) == names \ files

ToolOut(ret, files, file, path) ==
    [ret |-> ret, fs |-> files, file |-> file, path |-> path]

\* the except-blocks returning a fixed message that leaves the exception out
ErrorRet_noText(exc) == Ret("error", NONE, NONE, "Exception", NoFiles)

\* return f"Error during ... execution: {e}"
ErrorRet(exc) == Ret("error", NONE, NONE, exc, NoFiles)

\* except-block of RuffTool and BanditTool: unlink if code_file is bound and
\* the file exists
CleanupIfBound(files, bound, name) ==
    IF bound /\ name \in files THEN files \ {name} ELSE files

RuffTool_run(files, name, ev) ==
    IF ~ev.create
    THEN ToolOut(ErrorRet("OSError"), CleanupIfBound(files, FALSE, name),
                 NoFile, "create_failed")
    ELSE LET fs1 == files \cup {name} IN
    IF ~ev.write
    THEN ToolOut(ErrorRet("write"), CleanupIfBound(fs1, TRUE, name),
                 name, "write_failed")
    ELSE IF ev.proc # "completed"
    THEN ToolOut(ErrorRet(ev.proc), CleanupIfBound(fs1, TRUE, name), name,
                 IF ev.proc = "TimeoutExpired" THEN "timeout" ELSE "launch_failed")
    ELSE LET fs2 == IF ev.gone THEN fs1 \ {name} ELSE fs1 IN
    IF name \notin fs2
    THEN ToolOut(ErrorRet("FileNotFoundError"), CleanupIfBound(fs2, TRUE, name),
                 name, "unlink_failed")
    ELSE ToolOut(Ret("stdout", ev.stdout, NONE, NONE, NoFiles), fs2 \ {name},
                 name, IF ev.returncode = 0 THEN "exit_zero" ELSE "exit_nonzero")

BanditTool_run(files, name, ev) ==
    IF ~ev.create
    THEN ToolOut(ErrorRet("OSError"), CleanupIfBound(files, FALSE, name),
                 NoFile, "create_failed")
    ELSE LET fs1 == files \cup {name} IN
    IF ~ev.write
    THEN ToolOut(ErrorRet("write"), CleanupIfBound(fs1, TRUE, name),
                 name, "write_failed")
    ELSE IF ev.proc # "completed"
    THEN ToolOut(ErrorRet(ev.proc), CleanupIfBound(fs1, TRUE, name), name,
                 IF ev.proc = "TimeoutExpired" THEN "timeout" ELSE "launch_failed")
    ELSE LET fs2 == IF ev.gone THEN fs1 \ {name} ELSE fs1 IN
    IF name \notin fs2
    THEN ToolOut(ErrorRet("FileNotFoundError"), CleanupIfBound(fs2, TRUE, name),
                 name, "unlink_failed")
    ELSE ToolOut(Ret("stdout", ev.stdout, NONE, NONE, NoFiles), fs2 \ {name},
                 name, IF ev.returncode = 0 THEN "exit_zero" ELSE "exit_nonzero")

\* except-block of PytestExecutionTool: unlink if test_file_path is set and
\* the file exists
CleanupIfPath(files, test_file_path) ==
    IF test_file_path # NoFile /\ test_file_path \in files
    THEN files \ {test_file_path} ELSE files

\* test_file_path is None (NoFile here) until the statement after write() has run
PytestExecutionTool_run(files, name, ev) ==
    IF ~ev.create
    THEN ToolOut(ErrorRet("OSError"), CleanupIfPath(files, NoFile),
                 NoFile, "create_failed")
    ELSE LET fs1 == files \cup {name} IN
    IF ~ev.write
    THEN ToolOut(ErrorRet("write"), CleanupIfPath(fs1, NoFile),
                 name, "write_failed")
    ELSE IF ev.proc # "completed"
    THEN ToolOut(ErrorRet(ev.proc), CleanupIfPath(fs1, name), name,
                 IF ev.proc = "TimeoutExpired" THEN "timeout" ELSE "launch_failed")
    ELSE LET fs2 == IF ev.gone THEN fs1 \ {name} ELSE fs1 IN
    IF name \notin fs2
    THEN ToolOut(ErrorRet("FileNotFoundError"), CleanupIfPath(fs2, name),
                 name, "unlink_failed")
    ELSE IF ev.returncode = 0
    THEN ToolOut(Ret("passed", ev.stdout, NONE, NONE, NoFiles), fs2 \ {name},
                 name, "exit_zero")
    ELSE ToolOut(Ret("failed", ev.stdout, ev.stderr, NONE, NoFiles), fs2 \ {name},
                 name, "exit_nonzero")

\* the _run of the named tool
ToolRun(tool, files, name, ev) ==
    CASE tool = "ruff_tool" -> RuffTool_run(files, name, ev)
      [] tool = "bandit_tool" -> BanditTool_run(files, name, ev)
      [] tool = "pytest_tool" -> PytestExecutionTool_run(files, name, ev)

\* subprocess.run(..., timeout=N) of each tool
TimeoutOf(tool) ==
    CASE tool = "ruff_tool" -> RUFF_TIMEOUT
      [] tool = "bandit_tool" -> BANDIT_TIMEOUT
      [] tool = "pytest_tool" -> PYTEST_TIMEOUT

\* subprocess.run called without a timeout
Expired_never(tool, elapsed) == FALSE

\* subprocess.run: the child has been running for the whole timeout
Expired(tool, elapsed) == elapsed >= TimeoutOf(tool)

----------------------------------------------------------------------------
(* The crew: tools, agents, tasks *)

\* the task list with test generation placed before the security audit
tasks_reordered ==
    <<"file_reader_task", "review_task", "test_generation_task",
      "security_audit_task", "test_execution_task", "report_task">>

\* Crew(tasks=[...], process=Process.sequential): the order of execution
tasks ==
    <<"file_reader_task", "review_task", "security_audit_task",
      "test_generation_task", "test_execution_task", "report_task">>

TaskSet == {tasks[i] : i \in 1..Len(tasks)}

\* the contexts with the security audit also given the review's output
Context_chained(task) ==
    CASE task = "file_reader_task" -> {}
      [] task = "review_task" -> {"file_reader_task"}
      [] task = "security_audit_task" -> {"file_reader_task", "review_task"}
      [] task = "test_generation_task" -> {"review_task", "security_audit_task"}
      [] task = "test_execution_task" -> {"test_generation_task"}
      [] task = "report_task" ->
            {"review_task", "security_audit_task", "test_execution_task"}

\* Task(context=[...]): the earlier outputs a task is handed
Context(task) ==
    CASE task = "file_reader_task" -> {}
      [] task = "review_task" -> {"file_reader_task"}
      [] task = "security_audit_task" -> {"file_reader_task"}
      [] task = "test_generation_task" -> {"review_task", "security_audit_task"}
      [] task = "test_execution_task" -> {"test_generation_task"}
      [] task = "report_task" ->
            {"review_task", "security_audit_task", "test_execution_task"}

\* Task(agent=...)
TaskAgent(task) ==
    CASE task = "file_reader_task" -> "code_reviewer"
      [] task = "review_task" -> "code_reviewer"
      [] task = "security_audit_task" -> "security_agent"
      [] task = "test_generation_task" -> "test_generator"
      [] task = "test_execution_task" -> "test_executor"
      [] task = "report_task" -> "report_agent"

\* Agent(tools=[...])
AgentTools(agent) ==
    CASE agent = "code_reviewer" -> {"github_read_tool", "ruff_tool"}
      [] agent = "security_agent" -> {"bandit_tool"}
      [] agent = "test_generator" -> {}
      [] agent = "test_executor" -> {"pytest_tool"}
      [] agent = "report_agent" -> {"github_comment_tool"}

\* kickoff() wrapped in a handler that logs the exception and carries on
SwallowedException == [pc |-> "next_task", exitCode |-> -1, exitCause |-> "none"]

\* kickoff() is not inside a try block: an exception raised by the reasoning
\* service during a task leaves main() and ends the process with status 1
UncaughtException == [pc |-> "exited", exitCode |-> 1, exitCause |-> "exception"]

\* kickoff() returned: main() prints the result and falls off its end
MainReturns == [pc |-> "exited", exitCode |-> 0, exitCause |-> "returned"]

\* sys.exit(1) after setup_environment raised ValueError
ConfigExit == [pc |-> "exited", exitCode |-> 1, exitCause |-> "config"]

----------------------------------------------------------------------------
(* Inputs the outside world supplies *)

OutTexts == {"", "out"}
ErrTexts == {"", "err"}
ReturnCodes == {0, 1, 5}

ProcEvents ==
    [create : BOOLEAN, write : BOOLEAN,
     proc : {"completed", "TimeoutExpired", "OSError"},
     returncode : ReturnCodes, stdout : OutTexts, stderr : ErrTexts,
     gone : BOOLEAN]

\* One representative per outcome: fields a path never reads are pinned
ProcCases ==
    {ev \in ProcEvents :
        /\ ~ev.create => ev.write
        /\ ~(ev.create /\ ev.write) => ev.proc = "completed"
        /\ ~(ev.create /\ ev.write /\ ev.proc = "completed") =>
              /\ ev.returncode = 0 /\ ev.stdout = "" /\ ev.stderr = ""
              /\ ~ev.gone}

TmpNames == [dir : {"tmp"}, n : 1..MaxNames]
CwdNames == [dir : {"cwd"}, n : 1..MaxNames]

\* "a.py", "b.py" and "tpy", which ends in "py" but not in ".py"
FileNames == {<<"a", ".", "p", "y">>, <<"b", ".", "p", "y">>, <<"t", "p", "y">>}

FileEntries == [filename : FileNames, readable : BOOLEAN]

\* listings of up to MaxFiles changed files, no name twice
FileLists ==
    UNION {{l \in [1..k -> FileEntries] :
              \A i, j \in 1..k : i # j => l[i].filename # l[j].filename}
           : k \in 0..MaxFiles}

GhReads ==
    [repo : {"ok", "BadCredentialsException"},
     pull : {"ok", "UnknownObjectException"},
     files : FileLists]

GhReadCases ==
    {gh \in GhReads :
        /\ gh.repo # "ok" => gh.pull = "ok"
        /\ (gh.repo # "ok" \/ gh.pull # "ok") => gh.files = <<>>}

\* listings tried in a full run, one per way the loop over the files can end:
\* nothing changed, a readable .py file, an unreadable one, no .py file
RunFileLists ==
    {<<>>,
     <<[filename |-> <<"a", ".", "p", "y">>, readable |-> TRUE]>>,
     <<[filename |-> <<"a", ".", "p", "y">>, readable |-> FALSE]>>,
     <<[filename |-> <<"t", "p", "y">>, readable |-> TRUE]>>}

RunGhReads == {gh \in GhReadCases : gh.files \in RunFileLists}

GhPosts ==
    [repo : {"ok", "BadCredentialsException"},
     pull : {"ok", "UnknownObjectException"},
     create : {"ok", "GithubException"}]

Comments == {"report"}

\* final answers of the agents. report_task asks for "A confirmation message
\* stating 'Comment posted successfully.'"; the agent may also answer with the
\* report it wrote. The other answers are kept abstract.
Answers(task) ==
    IF task = "report_task" THEN {"Comment posted successfully.", "report"}
    ELSE {"answer"}

\* values of PR_URL tried in a full run: unset (the compiled-in default), a
\* reference without "pull", one whose number is not numeric
RunUrls ==
    {UNSET,
     <<"g", "/", "o", "/", "r", "/", "i", "/", "1">>,
     <<"g", "/", "o", "/", "r", "/", "p", "u", "l", "l", "/", "x">>}

RunEnvs ==
    {env \in [EnvNames -> {UNSET, <<>>, <<"g">>, <<"c">>, <<"p">>} \cup RunUrls] :
        /\ env["GOOGLE_API_KEY"] \in {UNSET, <<"g">>}
        /\ env["PAT_COMMENT"] \in {UNSET, <<"c">>}
        /\ env["GITHUB_PAT"] \in {UNSET, <<>>, <<"p">>}
        /\ env["PR_URL"] \in RunUrls}

----------------------------------------------------------------------------
(* State machine of one run of main() *)

NoCall ==
    [tool |-> NONE, arg |-> NONE, ret |-> Ret(NONE, NONE, NONE, NONE, NoFiles),
     api |-> <<>>, file |-> NoFile, path |-> NONE, ev |-> NONE]

curTask == tasks[cur]

\* no overlapping invocations: a run of main() makes its tool calls one at a time
NoInflight == [inv |-> <<>>, disk |-> <<>>]

Init ==
    /\ environ \in RunEnvs
    /\ pc = "main"
    /\ exitCode = -1
    /\ exitCause = "none"
    /\ cur = 1
    /\ started = {}
    /\ artifacts = [t \in {} |-> NONE]
    /\ calls = 0
    /\ lastCall = NoCall
    /\ fs = {}
    /\ events = {}
    /\ published = <<>>
    /\ output = {}
    /\ inflight = NoInflight
    /\ github_pat = UNSET

Exit(how) ==
    /\ pc' = how.pc
    /\ exitCode' = how.exitCode
    /\ exitCause' = how.exitCause

\* main() up to "Crew created": setup_environment, the tools (Auth.Token only
\* rejects an empty token, which setup_environment has excluded), the agents,
\* the tasks and the crew
Main ==
    /\ pc = "main"
    /\ LET r == setup_environment(environ)
       IN  IF r.raised
           THEN Exit(ConfigExit) /\ UNCHANGED <<environ, github_pat>>
           ELSE /\ environ' = r.environ
                /\ github_pat' = r.ret
                /\ pc' = "next_task"
                /\ UNCHANGED <<exitCode, exitCause>>
    /\ UNCHANGED <<output, inflight>>
    /\ UNCHANGED <<cur, started, artifacts, calls, lastCall, fs, events, published>>

\* the sequential process hands the next task of the list to its agent
StartTask ==
    /\ pc = "next_task"
    /\ cur <= Len(tasks)
    /\ pc' = "in_task"
    /\ started' = started \cup {curTask}
    /\ calls' = 0
    /\ UNCHANGED github_pat
    /\ UNCHANGED <<output, inflight>>
    /\ UNCHANGED <<environ, exitCode, exitCause, cur, artifacts, lastCall, fs,
                   events, published>>

\* the agent answers: the task's output is stored; the context handed to the
\* agent was the stored outputs of the tasks named in the task's context
FinishTask ==
    /\ pc = "in_task"
    /\ \E text \in Answers(curTask) :
          artifacts' =
             [t \in DOMAIN artifacts \cup {curTask} |->
                 IF t = curTask
                 THEN [inputs |-> [c \in Context(curTask) \cap DOMAIN artifacts |->
                                      artifacts[c]],
                       text |-> text]
                 ELSE artifacts[t]]
    /\ cur' = cur + 1
    /\ pc' = "next_task"
    /\ calls' = 0
    /\ lastCall' = NoCall
    /\ events' = events \cup {"llm"}
    /\ UNCHANGED github_pat
    /\ UNCHANGED <<output, inflight>>
    /\ UNCHANGED <<environ, exitCode, exitCause, started, fs, published>>

\* the reasoning service raises during the task
ReasoningError ==
    /\ pc = "in_task"
    /\ Exit(UncaughtException)
    /\ events' = events \cup {"llm", "llm_failed"}
    /\ UNCHANGED github_pat
    /\ UNCHANGED <<output, inflight>>
    /\ UNCHANGED <<environ, cur, started, artifacts, calls, lastCall, fs, published>>

\* every task is done: kickoff() returns the last task's output, which main()
\* prints
KickoffReturns ==
    /\ pc = "next_task"
    /\ cur > Len(tasks)
    /\ Exit(MainReturns)
    /\ output' = output \cup {artifacts["report_task"].text}
    /\ UNCHANGED github_pat
    /\ UNCHANGED inflight
    /\ UNCHANGED <<environ, cur, started, artifacts, calls, lastCall, fs, events,
                   published>>

CanUse(tool) ==
    /\ pc = "in_task"
    /\ calls < MaxToolCalls
    /\ tool \in AgentTools(TaskAgent(curTask))

\* the agent calls GitHubPRTool with the run's reference
UseGitHubPRTool ==
    /\ CanUse("github_read_tool")
    /\ \E gh \in RunGhReads :
          LET url == PrUrlOf(environ)
              r == GitHubPRTool_run(url, gh)
          IN  /\ lastCall' = [tool |-> "github_read_tool", arg |-> url,
                              ret |-> r.ret, api |-> r.api, file |-> NoFile,
                              path |-> NONE, ev |-> gh]
              /\ events' = events \cup {"llm", "fetch"}
                    \cup (IF r.api # <<>> THEN {"network"} ELSE {})
                    \cup (IF curTask = "file_reader_task" /\ r.api # <<>>
                             /\ r.ret.kind = "error"
                          THEN {"fetch_failed"} ELSE {})
                    \cup (IF r.ret.kind \in {"json", "no_py_files"}
                          THEN {"fetch_ok"} ELSE {})
                    \cup (IF r.ret.kind = "no_py_files"
                          THEN {"fetch_empty"} ELSE {})
                    \cup (IF r.ret.kind = "json"
                          THEN {"fetch_files"} ELSE {})
    /\ calls' = calls + 1
    /\ UNCHANGED github_pat
    /\ UNCHANGED <<output, inflight>>
    /\ UNCHANGED <<environ, pc, exitCode, exitCause, cur, started, artifacts, fs,
                   published>>

\* the agent calls GitHubPRCommentTool with the run's reference
UseGitHubPRCommentTool ==
    /\ CanUse("github_comment_tool")
    /\ \E gh \in GhPosts, comment \in Comments :
          LET url == PrUrlOf(environ)
              r == GitHubPRCommentTool_run(url, comment, gh)
          IN  /\ lastCall' = [tool |-> "github_comment_tool", arg |-> url,
                              ret |-> r.ret, api |-> r.api, file |-> NoFile,
                              path |-> NONE, ev |-> gh]
              /\ published' = IF r.posted THEN Append(published, comment)
                              ELSE published
              /\ output' = output \cup CommentToolLog(r)
              /\ events' = events \cup {"llm", "publish_call"}
                    \cup (IF r.api # <<>> THEN {"network"} ELSE {})
                    \cup (IF r.api # <<>> /\ ~r.posted
                          THEN {"publish_failed"} ELSE {})
    /\ calls' = calls + 1
    /\ UNCHANGED github_pat
    /\ UNCHANGED inflight
    /\ UNCHANGED <<environ, pc, exitCode, exitCause, cur, started, artifacts, fs>>

\* the tasks whose description tells the agent to run an analysis tool
AnalysisTasks == {"review_task", "security_audit_task", "test_execution_task"}

\* bookkeeping shared by the three analysis tools
AnalysisCall(tool, out, ev) ==
    /\ lastCall' = [tool |-> tool, arg |-> NONE, ret |-> out.ret, api |-> <<>>,
                    file |-> out.file, path |-> out.path, ev |-> ev]
    /\ fs' = out.fs
    /\ events' = events \cup {"llm", "tool"}
          \cup (IF out.path \in {"timeout", "exit_nonzero"}
                   /\ curTask \in AnalysisTasks
                THEN {"tool_failed"} ELSE {})
    /\ calls' = calls + 1
    /\ UNCHANGED github_pat
    /\ UNCHANGED <<output, inflight>>
    /\ UNCHANGED <<environ, pc, exitCode, exitCause, cur, started, artifacts,
                   published>>

UseRuffTool ==
    /\ CanUse("ruff_tool")
    /\ \E ev \in ProcCases, name \in TmpNames :
          /\ ev.create => name \notin fs
          /\ AnalysisCall("ruff_tool", RuffTool_run(fs, name, ev), ev)

UseBanditTool ==
    /\ CanUse("bandit_tool")
    /\ \E ev \in ProcCases, name \in TmpNames :
          /\ ev.create => name \notin fs
          /\ AnalysisCall("bandit_tool", BanditTool_run(fs, name, ev), ev)

UsePytestExecutionTool ==
    /\ CanUse("pytest_tool")
    /\ \E ev \in ProcCases, name \in CwdNames :
          /\ ev.create => name \notin fs
          /\ AnalysisCall("pytest_tool", PytestExecutionTool_run(fs, name, ev), ev)

Next ==
    \/ Main
    \/ StartTask
    \/ FinishTask
    \/ ReasoningError
    \/ KickoffReturns
    \/ UseGitHubPRTool
    \/ UseGitHubPRCommentTool
    \/ UseRuffTool
    \/ UseBanditTool
    \/ UsePytestExecutionTool

Spec == Init /\ [][Next]_vars

----------------------------------------------------------------------------
(* Reference handling in isolation: both repository tools applied to every
   reference built from a few segments *)

RECURSIVE Join(_)
Join(segs) ==
    IF Len(segs) = 1 THEN segs[1]
    ELSE segs[1] \o <<"/">> \o Join(Tail(segs))

\* an empty segment, a name, the word "pull", a number
RefSegs == {<<>>, <<"o">>, PULL, <<"7">>}

RefUrls == {Join(segs) : segs \in UNION {[1..k -> RefSegs] : k \in 1..MaxSegs}}

InitRef ==
    /\ environ \in {[n \in EnvNames |-> IF n = "PR_URL" THEN u ELSE <<"k">>] :
                       u \in RefUrls}
    /\ pc = "ref"
    /\ exitCode = -1
    /\ exitCause = "none"
    /\ cur = 1
    /\ started = {}
    /\ artifacts = [t \in {} |-> NONE]
    /\ calls = 0
    /\ lastCall = NoCall
    /\ fs = {}
    /\ events = {}
    /\ published = <<>>
    /\ output = {}
    /\ inflight = NoInflight
    /\ github_pat = UNSET

RefRead ==
    /\ pc = "ref"
    /\ \E gh \in RunGhReads :
          LET url == PrUrlOf(environ)
              r == GitHubPRTool_run(url, gh)
          IN  lastCall' = [tool |-> "github_read_tool", arg |-> url,
                           ret |-> r.ret, api |-> r.api, file |-> NoFile,
                           path |-> NONE, ev |-> gh]
    /\ UNCHANGED github_pat
    /\ UNCHANGED <<output, inflight>>
    /\ UNCHANGED <<environ, pc, exitCode, exitCause, cur, started, artifacts,
                   calls, fs, events, published>>

RefComment ==
    /\ pc = "ref"
    /\ \E gh \in GhPosts, comment \in Comments :
          LET url == PrUrlOf(environ)
              r == GitHubPRCommentTool_run(url, comment, gh)
          IN  /\ lastCall' = [tool |-> "github_comment_tool", arg |-> url,
                              ret |-> r.ret, api |-> r.api, file |-> NoFile,
                              path |-> NONE, ev |-> gh]
              /\ output' = output \cup CommentToolLog(r)
    /\ UNCHANGED github_pat
    /\ UNCHANGED inflight
    /\ UNCHANGED <<environ, pc, exitCode, exitCause, cur, started, artifacts,
                   calls, fs, events, published>>

NextRef == RefRead \/ RefComment

SpecRef == InitRef /\ [][NextRef]_vars

----------------------------------------------------------------------------
(* GitHubPRTool in isolation: applied to every listing of up to MaxFiles
   changed files *)

\* the default reference, two well-formed ones, one whose number is not
\* numeric and one without "pull"
FetchUrls ==
    {UNSET,
     Join(<<<<"o">>, <<"r">>, <<"o">>, <<"7">>>>),
     Join(<<<<"o">>, <<"r">>, PULL, <<"7">>>>),
     Join(<<<<"g">>, <<"o">>, <<"r">>, PULL, <<"1", "7">>, <<>>>>),
     Join(<<<<"o">>, <<"r">>, PULL, <<"x">>>>)}

InitFetch ==
    /\ environ \in {[n \in EnvNames |-> IF n = "PR_URL" THEN u ELSE <<"k">>] :
                       u \in FetchUrls}
    /\ pc = "fetch"
    /\ exitCode = -1
    /\ exitCause = "none"
    /\ cur = 1
    /\ started = {}
    /\ artifacts = [t \in {} |-> NONE]
    /\ calls = 0
    /\ lastCall = NoCall
    /\ fs = {}
    /\ events = {}
    /\ published = <<>>
    /\ output = {}
    /\ inflight = NoInflight
    /\ github_pat = UNSET

FetchFiles ==
    /\ pc = "fetch"
    /\ \E gh \in GhReadCases :
          LET url == PrUrlOf(environ)
              r == GitHubPRTool_run(url, gh)
          IN  lastCall' = [tool |-> "github_read_tool", arg |-> url,
                           ret |-> r.ret, api |-> r.api, file |-> NoFile,
                           path |-> NONE, ev |-> gh]
    /\ UNCHANGED github_pat
    /\ UNCHANGED <<environ, pc, exitCode, exitCause, cur, started, artifacts,
                   calls, fs, events, published, output, inflight>>

NextFetch == FetchFiles

SpecFetch == InitFetch /\ [][NextFetch]_vars

----------------------------------------------------------------------------
(* RuffTool._run and BanditTool._run running at the same time, statement by
   statement, on the same temporary directory. Only the two invocations
   create and remove files. *)

OverlapIds == {"ruff_tool", "bandit_tool"}

Idle == [pc |-> "idle", file |-> NoFile, read |-> NONE]

InitOverlap ==
    /\ environ \in {[n \in EnvNames |-> <<"k">>]}
    /\ pc = "overlap"
    /\ exitCode = -1
    /\ exitCause = "none"
    /\ cur = 1
    /\ started = {}
    /\ artifacts = [t \in {} |-> NONE]
    /\ calls = 0
    /\ lastCall = NoCall
    /\ fs = {}
    /\ events = {}
    /\ published = <<>>
    /\ output = {}
    /\ inflight = [inv |-> [id \in OverlapIds |-> Idle],
                   disk |-> [n \in {} |-> NONE]]
    /\ github_pat = UNSET

\* the invocation id moves to position to, now holding file and having read
\* the content written by read; disk maps each existing file to its writer
OvStep(id, to, file, read, disk) ==
    /\ pc = "overlap"
    /\ inflight' = [inv |-> [inflight.inv EXCEPT
                                ![id] = [pc |-> to, file |-> file, read |-> read]],
                    disk |-> disk]
    /\ fs' = DOMAIN disk
    /\ UNCHANGED github_pat
    /\ UNCHANGED <<environ, pc, exitCode, exitCause, cur, started, artifacts,
                   calls, lastCall, events, published, output>>

\* with tempfile.NamedTemporaryFile(...) as code_file: the file is created, empty
OvCreate(id) ==
    /\ inflight.inv[id].pc = "idle"
    /\ \E name \in NamedTemporaryFile(fs, TmpNames) :
          OvStep(id, "created", name, NONE,
                 [n \in fs \cup {name} |->
                     IF n = name THEN "empty" ELSE inflight.disk[n]])

\* code_file.write(code_content) and the end of the with block; or write raises
OvWrite(id) ==
    LET me == inflight.inv[id] IN
    /\ me.pc = "created"
    /\ \/ OvStep(id, "written", me.file, NONE,
                  [n \in fs \cup {me.file} |->
                      IF n = me.file THEN id ELSE inflight.disk[n]])
       \/ OvStep(id, "failed", me.file, NONE, inflight.disk)

\* subprocess.run(...): the child reads the file named code_file.name; it
\* completes, or TimeoutExpired is raised
OvRun(id) ==
    LET me == inflight.inv[id]
        seen == IF me.file \in fs THEN inflight.disk[me.file] ELSE "missing"
    IN  /\ me.pc = "written"
        /\ \E to \in {"ran", "failed"} :
              OvStep(id, to, me.file, seen, inflight.disk)

\* os.unlink(code_file.name) after the child has completed; FileNotFoundError
\* when the file does not exist
OvUnlink(id) ==
    LET me == inflight.inv[id] IN
    /\ me.pc = "ran"
    /\ IF me.file \in fs
       THEN OvStep(id, "unlinked", me.file, me.read,
                   [n \in fs \ {me.file} |-> inflight.disk[n]])
       ELSE OvStep(id, "failed", me.file, me.read, inflight.disk)

\* the except block: unlink the file if it exists, then return the error string
OvHandler(id) ==
    LET me == inflight.inv[id] IN
    /\ me.pc = "failed"
    /\ OvStep(id, "returned", me.file, me.read,
              [n \in fs \ {me.file} |-> inflight.disk[n]])

\* return process.stdout
OvReturn(id) ==
    LET me == inflight.inv[id] IN
    /\ me.pc = "unlinked"
    /\ OvStep(id, "returned", me.file, me.read, inflight.disk)

\* the agent calls the tool again
OvAgain(id) ==
    /\ inflight.inv[id].pc = "returned"
    /\ OvStep(id, "idle", NoFile, NONE, inflight.disk)

NextOverlap ==
    \E id \in OverlapIds :
        \/ OvCreate(id)
        \/ OvWrite(id)
        \/ OvRun(id)
        \/ OvUnlink(id)
        \/ OvHandler(id)
        \/ OvReturn(id)
        \/ OvAgain(id)

SpecOverlap == InitOverlap /\ [][NextOverlap]_vars

----------------------------------------------------------------------------
(* One analysis tool call with the time its child process takes, in seconds.
   The child exits on its own at any moment before the timeout, or never. *)

TimedTools == {"ruff_tool", "bandit_tool", "pytest_tool"}

\* the clock is not followed beyond the longest timeout
ClockCap == PYTEST_TIMEOUT + 1

NotCalled ==
    [tool |-> NONE, pc |-> "idle", elapsed |-> 0, killed |-> FALSE,
     ret |-> Ret(NONE, NONE, NONE, NONE, NoFiles)]

\* what the outside world did in a call whose child ended as proc says
TimedEvent(proc) ==
    [create |-> TRUE, write |-> TRUE, proc |-> proc, returncode |-> 0,
     stdout |-> "out", stderr |-> "", gone |-> FALSE]

InitTimed ==
    /\ environ \in {[n \in EnvNames |-> <<"k">>]}
    /\ pc = "timed"
    /\ exitCode = -1
    /\ exitCause = "none"
    /\ cur = 1
    /\ started = {}
    /\ artifacts = [t \in {} |-> NONE]
    /\ calls = 0
    /\ lastCall = NoCall
    /\ fs = {}
    /\ events = {}
    /\ published = <<>>
    /\ output = {}
    /\ inflight = [inv |-> NotCalled, disk |-> [n \in {} |-> NONE]]
    /\ github_pat = UNSET

TimedStep(inv) ==
    /\ pc = "timed"
    /\ inflight' = [inflight EXCEPT !.inv = inv]
    /\ UNCHANGED github_pat
    /\ UNCHANGED <<environ, pc, exitCode, exitCause, cur, started, artifacts,
                   calls, lastCall, fs, events, published, output>>

\* the agent calls a tool; _run gets as far as subprocess.run
TimedStart ==
    /\ inflight.inv.pc = "idle"
    /\ \E tool \in TimedTools :
          TimedStep([NotCalled EXCEPT !.tool = tool, !.pc = "running"])

\* a second passes while subprocess.run waits for the child
TimedTick ==
    LET me == inflight.inv IN
    /\ me.pc = "running"
    /\ ~Expired(me.tool, me.elapsed)
    /\ me.elapsed < ClockCap
    /\ TimedStep([me EXCEPT !.elapsed = me.elapsed + 1])

\* the child exits on its own before the timeout
TimedChildExits ==
    LET me == inflight.inv IN
    /\ me.pc = "running"
    /\ ~Expired(me.tool, me.elapsed)
    /\ TimedStep([me EXCEPT !.pc = "completed"])

\* the timeout is reached: subprocess.run kills the child and raises
\* TimeoutExpired, the except block returns the error string
TimedKill ==
    LET me == inflight.inv IN
    /\ me.pc = "running"
    /\ Expired(me.tool, me.elapsed)
    /\ \E name \in TmpNames :
          TimedStep([me EXCEPT
                       !.pc = "returned", !.killed = TRUE,
                       !.ret = ToolRun(me.tool, {}, name,
                                       TimedEvent("TimeoutExpired")).ret])

\* the statements after subprocess.run, up to the return
TimedReturn ==
    LET me == inflight.inv IN
    /\ me.pc = "completed"
    /\ \E name \in TmpNames :
          TimedStep([me EXCEPT
                       !.pc = "returned",
                       !.ret = ToolRun(me.tool, {}, name,
                                       TimedEvent("completed")).ret])

\* the agent goes on and may call a tool again
TimedAgain ==
    /\ inflight.inv.pc = "returned"
    /\ TimedStep(NotCalled)

NextTimed ==
    \/ TimedStart
    \/ TimedTick
    \/ TimedChildExits
    \/ TimedKill
    \/ TimedReturn
    \/ TimedAgain

\* time passes, and the interpreter goes on executing _run
SpecTimed ==
    /\ InitTimed
    /\ [][NextTimed]_vars
    /\ WF_vars(TimedTick)
    /\ WF_vars(TimedKill)
    /\ WF_vars(TimedReturn)

----------------------------------------------------------------------------
(* The start of main() over every combination of unset, empty and set
   credentials *)

EnvUrls == RunUrls \cup {PR_TO_REVIEW}

AllEnvs ==
    {env \in [EnvNames -> {UNSET, <<>>, <<"g">>, <<"c">>, <<"p">>} \cup EnvUrls] :
        /\ env["GOOGLE_API_KEY"] \in {UNSET, <<>>, <<"g">>}
        /\ env["PAT_COMMENT"] \in {UNSET, <<>>, <<"c">>}
        /\ env["GITHUB_PAT"] \in {UNSET, <<>>, <<"p">>}
        /\ env["PR_URL"] \in EnvUrls}

InitEnv ==
    /\ environ \in AllEnvs
    /\ pc = "main"
    /\ exitCode = -1
    /\ exitCause = "none"
    /\ cur = 1
    /\ started = {}
    /\ artifacts = [t \in {} |-> NONE]
    /\ calls = 0
    /\ lastCall = NoCall
    /\ fs = {}
    /\ events = {}
    /\ published = <<>>
    /\ output = {}
    /\ inflight = NoInflight
    /\ github_pat = UNSET

NextEnv == Main

SpecEnv == InitEnv /\ [][NextEnv]_vars

----------------------------------------------------------------------------
(* Vocabulary of the properties *)

Exited == pc = "exited"

\* the run ended by an error: the specification's Aborted(Fatal)
Aborted == Exited /\ exitCode # 0

\* the read tool's repository call failed in the Fetch task and no later
\* call of it succeeded
FetchFailed == "fetch_failed" \in events /\ "fetch_ok" \notin events

\* a publish call was rejected and no comment was posted
PublishFailed == "publish_failed" \in events /\ published = <<>>

ReasoningFailed == "llm_failed" \in events

\* the string a tool returned says that the tool run failed
DescribesFailure(ret) == ret.kind \in {"error", "failed"}

IsNumber(part) ==
    /\ part # <<>>
    /\ \A i \in 1..Len(part) : part[i] \in Digits

\* .../<owner>/<repo>/pull/<number>, slashes at either end ignored
WellFormedRef(url) ==
    LET parts == Split(Strip(url))
        n == Len(parts)
    IN  /\ n >= 4
        /\ parts[n - 3] # <<>>
        /\ parts[n - 2] # <<>>
        /\ parts[n - 1] = PULL
        /\ IsNumber(parts[n])

----------------------------------------------------------------------------
(* Properties *)

\* C1: a task has started only if every task named in its context has
\* completed and stored its output; so test_generation_task never starts
\* before review_task and security_audit_task are done, and report_task never
\* before review_task, security_audit_task and test_execution_task are done.
C1_UpstreamComplete ==
    \A t \in started : Context(t) \subseteq DOMAIN artifacts

C1_Witness ==
    /\ {"test_generation_task", "report_task"} \subseteq started
    /\ Context("report_task") \subseteq DOMAIN artifacts

\* C2: once a call of RuffTool, BanditTool or PytestExecutionTool has returned,
\* the temporary file that call created no longer exists, whatever exit path
\* the call took.
C2_TempFileRemoved ==
    lastCall.file # NoFile => lastCall.file \notin fs

\* C3: if the Fetch task's repository call fails, no other task is started,
\* no comment is published and the run ends aborted.
C3_FetchFailureAborts ==
    FetchFailed =>
        /\ started \subseteq {"file_reader_task"}
        /\ published = <<>>
        /\ Exited => exitCode # 0

\* C4: a run that reaches report_task posts exactly one comment: never more
\* than one, and one by the time main() returns unless the repository
\* rejected the publish call.
C4_PublishExactlyOnce ==
    /\ Len(published) <= 1
    /\ (Exited /\ exitCause = "returned" /\ "publish_failed" \notin events)
          => Len(published) = 1

\* C5 as stated: once the reasoning service has raised, the run is aborted
\* and no comment has been published in the run.
C5_NoCommentAtAll ==
    ReasoningFailed => Aborted /\ published = <<>>

\* C5 as amended: once the reasoning service has raised, the run is aborted
\* with exit status 1, the step that raised posts nothing, and from then on no
\* task starts and no comment is posted; when the exception is raised in a
\* task before report_task no comment has been published at all.
C5_AbortStopsEverything ==
    /\ [](ReasoningFailed =>
            /\ Aborted
            /\ exitCause = "exception"
            /\ curTask # "report_task" => published = <<>>)
    /\ [][/\ "llm_failed" \in events' => published' = published
          /\ ReasoningFailed => started' = started /\ artifacts' = artifacts]_vars

C5_Witness ==
    /\ ReasoningFailed
    /\ curTask = "test_generation_task"
    /\ "report_task" \notin started

\* C6: when an analysis tool times out or exits non-zero inside review_task,
\* security_audit_task or test_execution_task, what the tool hands to the
\* task describes the failure, and a run with such a failure in which
\* the reasoning service never raised runs every task, publishes the comment
\* and ends with exit status 0.
C6_ToolFailureDegrades ==
    /\ (lastCall.path \in {"timeout", "exit_nonzero"} /\ curTask \in AnalysisTasks)
          => DescribesFailure(lastCall.ret)
    /\ (Exited /\ "tool_failed" \in events /\ ~ReasoningFailed) =>
          /\ exitCode = 0
          /\ DOMAIN artifacts = TaskSet
          /\ Len(published) >= 1

\* C7: if the publish call failed and nothing was posted, the run ends
\* aborted, and not in the way a failed analysis task ends it.
C7_PublishFailureAborts ==
    (Exited /\ PublishFailed /\ ~ReasoningFailed) =>
        /\ exitCode # 0
        /\ exitCause \notin {"exception", "config"}

\* C8: the exit status is 0 exactly when the run ended without a fatal
\* condition: no missing credential, no fetch failure, no reasoning failure
\* and no publish failure.
C8_ExitCode ==
    Exited =>
        (exitCode = 0 <=>
            ~(exitCause = "config" \/ FetchFailed \/ ReasoningFailed \/ PublishFailed))

\* C9: when a required credential is missing or the pull-request reference is
\* malformed, no task starts and no reasoning call, tool call, repository call
\* or publish happens.
C9_PreflightStops ==
    (exitCause = "config" \/ ~WellFormedRef(PrUrlOf(environ))) =>
        /\ started = {}
        /\ events = {}
        /\ published = <<>>

\* C10: for a reference that is not .../<owner>/<repo>/pull/<number>, both
\* repository tools return the invalid-reference error and make no repository
\* call.
C10_MalformedRejected ==
    (/\ lastCall.tool \in {"github_read_tool", "github_comment_tool"}
     /\ ~WellFormedRef(lastCall.arg)) =>
        /\ lastCall.ret.kind = "invalid_url"
        /\ lastCall.api = <<>>

\* the three tools that run a child process on a temporary file
AnalysisTools == {"ruff_tool", "bandit_tool", "pytest_tool"}

\* C11: when the child process of RuffTool, BanditTool or PytestExecutionTool
\* exceeds its timeout, the call returns (it does not raise into the task) a
\* string that names the timeout, and no call that ended any other way
\* (success, non-zero exit, launch failure, file-system failure) returns that
\* string.
C11_TimeoutDistinguished ==
    /\ [](lastCall.tool \in AnalysisTools =>
            (lastCall.path = "timeout" <=>
                lastCall.ret = ErrorRet("TimeoutExpired")))
    /\ [][(lastCall'.path = "timeout" /\ lastCall.path # "timeout") =>
             /\ pc = "in_task" /\ pc' = "in_task"
             /\ exitCode' = exitCode
             /\ calls' = calls + 1]_vars

C11_Witness ==
    /\ lastCall.tool = "pytest_tool"
    /\ lastCall.path = "timeout"
    /\ lastCall.file \notin fs

\* "python -m <tool>" with the tool's module not installed: the interpreter
\* starts, prints "No module named <tool>" on stderr and exits with status 1
ModuleMissing(ev) ==
    /\ ev.create /\ ev.write
    /\ ev.proc = "completed"
    /\ ev.returncode = 1 /\ ev.stdout = "" /\ ev.stderr # ""
    /\ ~ev.gone

\* the tool could not be started: no interpreter, or no module
CannotLaunch(ev) ==
    \/ ev.create /\ ev.write /\ ev.proc = "OSError"
    \/ ModuleMissing(ev)

\* what the tool returns after a run that exits with status 0, prints out
\* and nothing on stderr
CleanRun(tool, name, out) ==
    ToolRun(tool, {}, name,
            [create |-> TRUE, write |-> TRUE, proc |-> "completed",
             returncode |-> 0, stdout |-> out, stderr |-> "",
             gone |-> FALSE]).ret

\* C12: when ruff, bandit or pytest cannot be started (the interpreter or the
\* tool's module is missing), the call returns a string that describes a
\* failure and that no successful run returns, whatever that run printed.
C12_LaunchFailureDistinguished ==
    (lastCall.tool \in AnalysisTools /\ CannotLaunch(lastCall.ev)) =>
        /\ DescribesFailure(lastCall.ret)
        /\ \A out \in OutTexts :
              lastCall.ret # CleanRun(lastCall.tool, lastCall.file, out)

\* the exit status can be read off the returned string: only the
\* "All tests passed!" template implies one (0)
CarriesExitCode(ret, returncode) == ret.kind = "passed" /\ returncode = 0

\* the child process ran to completion and the call returned through its
\* normal path
ProcessCompleted(call) ==
    /\ call.tool \in AnalysisTools
    /\ call.path \in {"exit_zero", "exit_nonzero"}

\* C13: after the child process of RuffTool, BanditTool or PytestExecutionTool
\* has completed, the returned result carries the process's exit status, its
\* whole standard output and its whole standard error, unchanged.
C13_ResultCarriesOutput ==
    ProcessCompleted(lastCall) =>
        /\ CarriesExitCode(lastCall.ret, lastCall.ev.returncode)
        /\ lastCall.ret.stdout = lastCall.ev.stdout
        /\ lastCall.ret.stderr = lastCall.ev.stderr

\* C14: when the temporary file is already gone at the moment the tool removes
\* it after the child process has completed, the call still returns the
\* captured output and not an error string.
C14_MissingFileSwallowed ==
    (lastCall.tool \in AnalysisTools /\ lastCall.path = "unlink_failed") =>
        /\ lastCall.ret.kind # "error"
        /\ lastCall.ret.stdout = lastCall.ev.stdout

\* the output of a task whose whole context was the output of file_reader_task
FromFileSetOnly ==
    [inputs |-> [c \in {"file_reader_task"} |-> artifacts["file_reader_task"]],
     text |-> "answer"]

\* C16: review_task and security_audit_task are each handed the output of
\* file_reader_task and nothing else, so neither receives the other's output;
\* what test_generation_task is handed is the pair of their outputs, each
\* derived from the fetched files alone, and so does not depend on which of the
\* two ran first.
C16_IndependentStages ==
    /\ \A t \in {"review_task", "security_audit_task"} \cap DOMAIN artifacts :
          DOMAIN artifacts[t].inputs = {"file_reader_task"}
    /\ "test_generation_task" \in DOMAIN artifacts =>
          artifacts["test_generation_task"].inputs =
             [t \in {"review_task", "security_audit_task"} |-> FromFileSetOnly]

C16_Witness ==
    /\ "test_generation_task" \in DOMAIN artifacts
    /\ DOMAIN artifacts["test_generation_task"].inputs =
          {"review_task", "security_audit_task"}

\* the fetch found no file to review: the run's FileSet is empty
EmptyFileSet ==
    /\ "fetch_empty" \in events
    /\ "fetch_files" \notin events
    /\ "file_reader_task" \in DOMAIN artifacts

\* pytest ends with exit status 5 when it collected no test
NoTestsCollected(ev) == ev.proc = "completed" /\ ev.returncode = 5

\* C17: in a run whose fetch found no file, when pytest is run in
\* test_execution_task and exits with status 0, or with a non-zero status only
\* because it collected no test, the tool reports the run as passed: not as
\* failed and not as an error.
C17_EmptyRunNoOpSuccess ==
    (/\ lastCall.tool = "pytest_tool"
     /\ curTask = "test_execution_task"
     /\ EmptyFileSet
     /\ ProcessCompleted(lastCall)
     /\ (lastCall.ev.returncode = 0 \/ NoTestsCollected(lastCall.ev))) =>
        lastCall.ret.kind = "passed"

\* the name's last three characters are ".py"
HasPySuffix(name) ==
    /\ Len(name) >= 3
    /\ name[Len(name) - 2] = "."
    /\ name[Len(name) - 1] = "p"
    /\ name[Len(name)] = "y"

\* the changed paths of a listing that end in ".py"
ChangedPy(listing) ==
    {listing[i].filename : i \in {j \in DOMAIN listing : HasPySuffix(listing[j].filename)}}

\* a read call on a well-formed reference for which every repository call
\* succeeded
FetchSucceeded(call) ==
    /\ call.tool = "github_read_tool"
    /\ WellFormedRef(call.arg)
    /\ call.ev.repo = "ok"
    /\ call.ev.pull = "ok"
    /\ \A i \in DOMAIN call.ev.files :
          HasPySuffix(call.ev.files[i].filename) => call.ev.files[i].readable

\* C18: for a well-formed reference on which the repository calls succeed, the
\* keys of what GitHubPRTool returns are exactly the changed paths ending in
\* ".py" (none outside the changed files, no other path), and each key maps to
\* that file's content at the head revision of the pull request.
C18_FileSetKeys ==
    FetchSucceeded(lastCall) =>
        /\ lastCall.ret.kind \in {"json", "no_py_files"}
        /\ DOMAIN lastCall.ret.files = ChangedPy(lastCall.ev.files)
        /\ \A f \in DOMAIN lastCall.ret.files :
              lastCall.ret.files[f] = <<f, "head_sha">>

C18_Witness ==
    /\ FetchSucceeded(lastCall)
    /\ lastCall.ret.kind = "json"
    /\ \E i \in DOMAIN lastCall.ev.files :
          ~HasPySuffix(lastCall.ev.files[i].filename)

\* the read call got as far as the listing and the listing has no ".py" path
NothingToReview(call) ==
    /\ call.tool = "github_read_tool"
    /\ call.api # <<>>
    /\ call.ev.repo = "ok"
    /\ call.ev.pull = "ok"
    /\ ChangedPy(call.ev.files) = {}

\* every string the read tool returns for a failed fetch
FetchErrorResults ==
    {r \in {GitHubPRTool_run(PrUrlOf([environ EXCEPT !["PR_URL"] = u]), gh).ret :
               u \in RunUrls, gh \in RunGhReads} :
        r.kind \in {"invalid_url", "error"}}

\* C19: when the pull request changes no ".py" file, GitHubPRTool returns the
\* "no .py files" outcome and returns it in no other case; that outcome is
\* none of the strings a failed fetch returns, and a run in which the fetch
\* ended that way goes on: unless the reasoning service raises, every task
\* runs and the exit status is 0.
C19_EmptyIsNotAnError ==
    /\ lastCall.tool = "github_read_tool" =>
          /\ NothingToReview(lastCall) <=> lastCall.ret.kind = "no_py_files"
          /\ NothingToReview(lastCall) => lastCall.ret \notin FetchErrorResults
    /\ (Exited /\ EmptyFileSet /\ ~ReasoningFailed) =>
          /\ exitCode = 0
          /\ DOMAIN artifacts = TaskSet

C19_Witness ==
    /\ Exited
    /\ EmptyFileSet
    /\ ~ReasoningFailed
    /\ "fetch_failed" \notin events

\* C20: when the report was written and handed to the comment tool but the
\* publish call failed and nothing was posted, the report text has been
\* printed or logged by the time main() returns.
C20_ReportSurvivesPublishFailure ==
    (Exited /\ exitCause = "returned" /\ PublishFailed) =>
        \E comment \in Comments : comment \in output

\* the invocation has created its temporary file and not yet removed it
Holding(id) == inflight.inv[id].pc \in {"created", "written", "ran", "failed"}

\* C15: two tool invocations that hold their temporary files at the same time
\* hold files of different names, and neither touches the other's file: while
\* an invocation holds its file the file exists and contains what that
\* invocation wrote (nobody else removed or overwrote it), and the child
\* process of an invocation read what that invocation wrote.
C15_DistinctTempNames ==
    pc = "overlap" =>
        /\ \A a, b \in OverlapIds :
              (a # b /\ Holding(a) /\ Holding(b)) =>
                  inflight.inv[a].file # inflight.inv[b].file
        /\ \A id \in OverlapIds :
              LET me == inflight.inv[id] IN
              /\ Holding(id) => me.file \in fs
              /\ me.pc \in {"written", "ran"} => inflight.disk[me.file] = id
              /\ me.read \in {NONE, id}

C15_Witness ==
    /\ pc = "overlap"
    /\ inflight.inv["ruff_tool"].pc = "ran"
    /\ inflight.inv["bandit_tool"].pc = "ran"
    /\ inflight.inv["ruff_tool"].read = "ruff_tool"
    /\ inflight.inv["bandit_tool"].read = "bandit_tool"

\* seconds after which each tool's child process is to be stopped
ConfiguredTimeout(tool) == IF tool = "pytest_tool" THEN 60 ELSE 30

\* C21: every call of RuffTool, BanditTool or PytestExecutionTool returns:
\* its child process never runs longer than the configured timeout (30 s for
\* ruff and bandit, 60 s for pytest), a child that has not exited by then is
\* killed at exactly that time and the call returns the timeout error string,
\* and a call that has started its child always reaches its return.
C21_InvocationReturns ==
    /\ [](pc = "timed" =>
            LET me == inflight.inv IN
            /\ me.pc = "running" => me.elapsed <= ConfiguredTimeout(me.tool)
            /\ me.killed =>
                  /\ me.elapsed = ConfiguredTimeout(me.tool)
                  /\ me.pc = "returned"
                  /\ me.ret = ErrorRet("TimeoutExpired"))
    /\ ((pc = "timed" /\ inflight.inv.pc = "running")
            ~> (inflight.inv.pc = "returned"))

C21_Witness ==
    /\ pc = "timed"
    /\ inflight.inv.tool = "pytest_tool"
    /\ inflight.inv.killed
    /\ inflight.inv.pc = "returned"

\* the variable is set and its value is not empty
IsSet(v) == v # UNSET /\ Len(v) > 0

\* C22: the start of main() resolves the repository credential by a fixed
\* precedence: the value of PAT_COMMENT when that is set and non-empty,
\* otherwise the value of GITHUB_PAT. It fails with exit status 1 exactly
\* when GOOGLE_API_KEY is unset or empty or both PAT_COMMENT and GITHUB_PAT
\* are; otherwise the credential it returns is the value it stores in the
\* GITHUB_PAT environment variable.
C22_CredentialPrecedence ==
    [][pc = "main" =>
         LET fails ==
                \/ ~IsSet(environ["GOOGLE_API_KEY"])
                \/ ~IsSet(environ["PAT_COMMENT"]) /\ ~IsSet(environ["GITHUB_PAT"])
             credential ==
                IF IsSet(environ["PAT_COMMENT"]) THEN environ["PAT_COMMENT"]
                ELSE environ["GITHUB_PAT"]
         IN  IF fails
             THEN /\ pc' = "exited"
                  /\ exitCode' = 1
                  /\ exitCause' = "config"
                  /\ github_pat' = UNSET
                  /\ environ' = environ
             ELSE /\ pc' = "next_task"
                  /\ exitCode' = -1
                  /\ github_pat' = credential
                  /\ environ'["GITHUB_PAT"] = github_pat'
                  /\ environ'["PAT_COMMENT"] = environ["PAT_COMMENT"]]_vars

C22_Witness ==
    /\ pc = "next_task"
    /\ github_pat = <<"c">>
    /\ environ["PAT_COMMENT"] = <<"c">>
    /\ environ["GITHUB_PAT"] = <<"c">>
    /\ cur = 1 /\ started = {}

\* the pytest child process was started and ran to its end
TestProcessCompleted(call) ==
    /\ call.tool = "pytest_tool"
    /\ call.ev.create /\ call.ev.write
    /\ call.ev.proc = "completed"

\* C23: PytestExecutionTool classifies a completed test process by its exit
\* status alone: "All tests passed!" exactly when the status is 0, "Tests
\* FAILED!" for every other status; the "Error during test/coverage
\* execution" string is returned only when the process did not complete.
C23_ClassifiedByExitCode ==
    lastCall.tool = "pytest_tool" =>
        /\ TestProcessCompleted(lastCall) =>
              /\ lastCall.ret.kind = "passed" <=> lastCall.ev.returncode = 0
              /\ lastCall.ev.returncode # 0 => lastCall.ret.kind = "failed"
        /\ lastCall.ret.kind = "error" => ~TestProcessCompleted(lastCall)

\* a repository call of the read failed: the repository or the pull request
\* was not found, or the content of some changed ".py" file could not be read
RepositoryFailure(call) ==
    \/ call.ev.repo # "ok"
    \/ call.ev.pull # "ok"
    \/ \E i \in DOMAIN call.ev.files :
          HasPySuffix(call.ev.files[i].filename) /\ ~call.ev.files[i].readable

\* C24: GitHubPRTool always returns a string and is all-or-nothing: for an
\* invalid reference, a non-numeric number, a failed repository or
\* pull-request lookup or a ".py" file that cannot be read (even after others
\* were read) it returns one error string and no file mapping; it returns the
\* JSON mapping only when every changed ".py" file was read, and then the
\* mapping has all of them.
C24_AllOrNothing ==
    lastCall.tool = "github_read_tool" =>
        /\ lastCall.ret.kind \in {"invalid_url", "error", "no_py_files", "json"}
        /\ (~WellFormedRef(lastCall.arg) \/ RepositoryFailure(lastCall)) =>
              /\ lastCall.ret.kind \in {"invalid_url", "error"}
              /\ lastCall.ret.files = NoFiles
        /\ lastCall.ret.kind = "json" =>
              /\ ~RepositoryFailure(lastCall)
              /\ DOMAIN lastCall.ret.files = ChangedPy(lastCall.ev.files)
        /\ lastCall.ret.kind # "json" => lastCall.ret.files = NoFiles

\* the second of two ".py" files could not be read after the first was
C24_Witness ==
    /\ lastCall.tool = "github_read_tool"
    /\ lastCall.ret.kind = "error"
    /\ Len(lastCall.ev.files) = 2
    /\ HasPySuffix(lastCall.ev.files[1].filename) /\ lastCall.ev.files[1].readable
    /\ HasPySuffix(lastCall.ev.files[2].filename) /\ ~lastCall.ev.files[2].readable
    /\ lastCall.api = <<"get_repo", "get_pull", "get_files", "get_contents",
                        "get_contents">>

====
